---- MODULE Spec2Model ----
(***************************************************************************)
(* gorocks write batch: the Go wrapper around the storage engine's write   *)
(* batch (Put / Delete / Clear / Data), the WriteBatchIterator that        *)
(* decodes the serialized batch, and decodeVarint.                         *)
(*                                                                         *)
(* Bytes are naturals 0..255.  A uint64 is kept as ten 7-bit limbs, least  *)
(* significant first (limb 10 holds bit 63 only), so that the shifts of    *)
(* decodeVarint, and the bits they push out of the word, are exact.        *)
(* A Go slice is [nil, b]: nil tells the unset slice from the empty one.   *)
(***************************************************************************)
EXTENDS Integers, Sequences, FiniteSets, TLC

VARIABLES
    wbatch,   \* WriteBatch.wbatch: the bytes of the engine's batch (rep_)
    wpanic,   \* a builder call faulted (index out of range)
    ops,      \* history: the records appended since the last Clear
    nops,     \* history: number of builder calls made
    lastOp,   \* history: the last builder call, its key, the batch size before it
    phase,    \* "build" | "iter" (an iterator exists) | "varint"
    it,       \* WriteBatchIterator: data, record, err
    ret,      \* result of the last Next call: "none" | "true" | "false" | "panic"
    prevRet,  \* result of the call before it
    out,      \* history: the records copied out after each Next that returned true
    cut,      \* history: where the serialized bytes were cut (-1: not cut)
    vbuf,     \* decodeVarint's argument
    vval,     \* the value vbuf was encoded from (when vsrc = "enc")
    vsrc,     \* "raw" | "enc" | "none"
    vout      \* decodeVarint's result, or NoResult before the call

vars == <<wbatch, wpanic, ops, nops, lastOp, phase, it, ret, prevRet, out, cut,
          vbuf, vval, vsrc, vout>>

builderVars == <<wbatch, wpanic, ops, nops, lastOp>>
readerVars  == <<it, ret, prevRet, out, cut>>
varintVars  == <<vbuf, vval, vsrc, vout>>

----------------------------------------------------------------------------
\* Bounds of the model.

\* builder calls per behaviour
MaxOps == 3
\* length of an arbitrary batch body handed to the iterator
MaxBody == 5
\* largest record count written in the header of an arbitrary batch
MaxHdrCount == 1
\* continuation-flagged bytes at the front of an arbitrary varint buffer
MaxCont == 10
\* bytes following a varint in its buffer
MaxTrail == 1
\* length of the long value of the pool (its length varint takes two bytes)
LongLen == 128

----------------------------------------------------------------------------
\* Program constants.

RecordTypeDeletion == 0
RecordTypeValue    == 1
RecordTypeMerge    == 2
RecordTypeLogData  == 3

\* NewIterator: 8 + 4, sequence fixed64 and count fixed32
HeaderSize == 12

\* decodeVarint: the loop runs while shift < 64, in steps of 7
WordBits  == 64
ShiftStep == 7

NoErr == "nil"
ErrShortBuffer == "io.ErrShortBuffer"

----------------------------------------------------------------------------
\* Slices, bytes and 64-bit words.

NilSlice == [nil |-> TRUE, b |-> <<>>]
Slice(s) == [nil |-> FALSE, b |-> s]

Min(a, b) == IF a < b THEN a ELSE b

\* ten limbs of 7 bits: 7 * 10 > 64
NLimbs == 10
Zero64 == [i \in 1..NLimbs |-> 0]

\* number of bits of limb i that lie inside the 64-bit word
LimbMod(i) == IF ShiftStep * i <= WordBits THEN 128 ELSE 2

\* x |= (b & 0x7F) << shift, on a word whose bits from shift up are still 0:
\* the bits shifted past bit 63 are lost
OrShl(x, b, shift) ==
    LET i == shift \div ShiftStep + 1
    IN  [x EXCEPT ![i] = (b % 128) % LimbMod(i)]

\* a small natural as a word
ToWord(n) ==
    [i \in 1..NLimbs |->
        CASE i = 1 -> n % 128
          [] i = 2 -> (n \div 128) % 128
          [] i = 3 -> (n \div 16384) % 128
          [] i = 4 -> (n \div 2097152) % 128
          [] OTHER -> 0]

\* int(x) for a word below 2^28; every larger word converts to an int that is
\* negative or beyond the length of any buffer of the model
IntFits(x) == \A i \in 5..NLimbs : x[i] = 0
IntOf(x) == x[1] + 128 * x[2] + 16384 * x[3] + 2097152 * x[4]

----------------------------------------------------------------------------
\* decodeVarint.

RECURSIVE decodeVarintLoop(_, _, _, _)
\* one turn of the loop: for shift := 0; shift < 64; shift += 7
decodeVarintLoop(buf, shift, x, n) ==
    IF shift >= WordBits THEN [x |-> Zero64, n |-> 0]
    ELSE IF n >= Len(buf) THEN [x |-> Zero64, n |-> 0]
    ELSE LET b  == buf[n + 1]
             x2 == OrShl(x, b, shift)
         IN  IF b \div 128 = 0
             THEN [x |-> x2, n |-> n + 1]
             ELSE decodeVarintLoop(buf, shift + ShiftStep, x2, n + 1)

RECURSIVE decodeVarintLoop_shift63(_, _, _, _)
\* mutant: the loop stops one turn early (shift < 63)
decodeVarintLoop_shift63(buf, shift, x, n) ==
    IF shift >= WordBits - 1 THEN [x |-> Zero64, n |-> 0]
    ELSE IF n >= Len(buf) THEN [x |-> Zero64, n |-> 0]
    ELSE LET b  == buf[n + 1]
             x2 == OrShl(x, b, shift)
         IN  IF b \div 128 = 0
             THEN [x |-> x2, n |-> n + 1]
             ELSE decodeVarintLoop_shift63(buf, shift + ShiftStep, x2, n + 1)

decodeVarint_shift63(buf) == decodeVarintLoop_shift63(buf, 0, Zero64, 0)

decodeVarint(buf) == decodeVarintLoop(buf, 0, Zero64, 0)

----------------------------------------------------------------------------
\* The storage engine's side of the batch, after the layout
\*   rep_ := sequence: fixed64, count: fixed32, data: record[count]
\*   record := kTypeValue varstring varstring | kTypeDeletion varstring
\*   varstring := len: varint32, data: uint8[len]

PutFixed32(n) ==
    <<n % 256, (n \div 256) % 256, (n \div 65536) % 256, (n \div 16777216) % 256>>

DecodeFixed32(b) == b[1] + 256 * b[2] + 65536 * b[3] + 16777216 * b[4]

\* index of the highest limb that is not 0 (1 for the word 0)
TopLimb(x) ==
    LET nz == {i \in 1..NLimbs : x[i] # 0}
    IN  IF nz = {} THEN 1 ELSE CHOOSE i \in nz : \A j \in nz : j <= i

\* the minimal base-128 encoding, least significant group first
EncodeVarint64(x) ==
    [i \in 1..TopLimb(x) |-> IF i < TopLimb(x) THEN x[i] + 128 ELSE x[i]]

PutVarint32(n) == EncodeVarint64(ToWord(n))

PutLengthPrefixedSlice(s) == PutVarint32(Len(s)) \o s

Count(rep) == DecodeFixed32(SubSeq(rep, 9, 12))

SetCount(rep, n) == SubSeq(rep, 1, 8) \o PutFixed32(n) \o SubSeq(rep, 13, Len(rep))

rocksdb_writebatch_create == [i \in 1..HeaderSize |-> 0]

rocksdb_writebatch_put(rep, key, value) ==
    SetCount(rep, Count(rep) + 1) \o <<RecordTypeValue>>
        \o PutLengthPrefixedSlice(key) \o PutLengthPrefixedSlice(value)

rocksdb_writebatch_delete(rep, key) ==
    SetCount(rep, Count(rep) + 1) \o <<RecordTypeDeletion>>
        \o PutLengthPrefixedSlice(key)

rocksdb_writebatch_clear(rep) == [i \in 1..HeaderSize |-> 0]

rocksdb_writebatch_data(rep) == rep

----------------------------------------------------------------------------
\* WriteBatch: the Go wrapper.  Each operator gives the batch after the call
\* and whether the call faulted.

WriteBatch_Put(w, key, value) ==
    [wbatch |-> rocksdb_writebatch_put(w, key, value), panic |-> FALSE]

\* &key[0] is evaluated whatever len(key) is: index out of range on an
\* empty key, before the engine is called
WriteBatch_Delete(w, key) ==
    IF Len(key) = 0
    THEN [wbatch |-> w, panic |-> TRUE]
    ELSE [wbatch |-> rocksdb_writebatch_delete(w, key), panic |-> FALSE]

\* mutant: Clear does not reach the engine
WriteBatch_Clear_noop(w) == w

WriteBatch_Clear(w) == rocksdb_writebatch_clear(w)

\* Len and Cap are both the engine's size: the slice has no spare capacity
WriteBatch_Data(w) == rocksdb_writebatch_data(w)

----------------------------------------------------------------------------
\* WriteBatchIterator.

ZeroRecord == [Key |-> NilSlice, Value |-> NilSlice, Type |-> 0]

\* &WriteBatchIterator{}
ZeroIterator == [data |-> <<>>, record |-> ZeroRecord, err |-> NoErr]

\* mutant: the header is taken to be the 8-byte sequence number alone
NewIteratorOver_header8(data) ==
    IF Len(data) < 8
    THEN ZeroIterator
    ELSE [ZeroIterator EXCEPT !.data = SubSeq(data, 9, Len(data))]

\* NewIterator, from the bytes Data() returned
NewIteratorOver(data) ==
    IF Len(data) < 8 + 4
    THEN ZeroIterator
    ELSE [ZeroIterator EXCEPT !.data = SubSeq(data, HeaderSize + 1, Len(data))]

\* x, n := decodeVarint(data); k := n + int(x); data[n:k]; data[k:]
\*   "short": n == 0
\*   "panic": the slice bounds are out of range (k < n after the conversion
\*            to int, or k > len(data) = cap(data))
\*   "ok":    field = data[n:k], rest = data[k:]
ReadVarstring(data) ==
    LET d == decodeVarint(data)
    IN  IF d.n = 0 THEN [st |-> "short", field |-> NilSlice, rest |-> data]
        ELSE IF ~IntFits(d.x) \/ d.n + IntOf(d.x) > Len(data)
        THEN [st |-> "panic", field |-> NilSlice, rest |-> data]
        ELSE LET k == d.n + IntOf(d.x)
             IN  [st |-> "ok",
                  field |-> Slice(SubSeq(data, d.n + 1, k)),
                  rest |-> SubSeq(data, k + 1, Len(data))]

\* the body of Next after the type tag was consumed: t is the iterator with
\* record.Type set and data advanced by one byte
NextFields(t) ==
    LET recordType == t.record.Type
        kf == ReadVarstring(t.data)
    IN  IF kf.st = "short"
        THEN [this |-> [t EXCEPT !.err = ErrShortBuffer], ret |-> "false"]
        ELSE IF kf.st = "panic"
        THEN [this |-> t, ret |-> "panic"]
        ELSE LET t2 == [t EXCEPT !.record.Key = kf.field, !.data = kf.rest]
             IN  IF recordType = RecordTypeValue \/ recordType = RecordTypeMerge
                 THEN LET vf == ReadVarstring(t2.data)
                      IN  IF vf.st = "short"
                          THEN [this |-> [t2 EXCEPT !.err = ErrShortBuffer],
                                ret |-> "false"]
                          ELSE IF vf.st = "panic"
                          THEN [this |-> t2, ret |-> "panic"]
                          ELSE [this |-> [t2 EXCEPT !.record.Value = vf.field,
                                                    !.data = vf.rest],
                                ret |-> "true"]
                 ELSE [this |-> t2, ret |-> "true"]

\* mutant: record.Key and record.Value are not reset at the start of a record
WriteBatchIterator_Next_noreset(this) ==
    IF this.err # NoErr \/ Len(this.data) = 0
    THEN [this |-> this, ret |-> "false"]
    ELSE NextFields([this EXCEPT !.record.Type = this.data[1],
                                 !.data = Tail(this.data)])

\* mutant: a latched error is not looked at
WriteBatchIterator_Next_nolatch(this) ==
    IF Len(this.data) = 0
    THEN [this |-> this, ret |-> "false"]
    ELSE NextFields([this EXCEPT !.record = [Key |-> NilSlice,
                                             Value |-> NilSlice,
                                             Type |-> this.data[1]],
                                 !.data = Tail(this.data)])

\* Next: the iterator after the call, and what the call returned
WriteBatchIterator_Next(this) ==
    IF this.err # NoErr \/ Len(this.data) = 0
    THEN [this |-> this, ret |-> "false"]
    ELSE NextFields([this EXCEPT !.record = [Key |-> NilSlice,
                                             Value |-> NilSlice,
                                             Type |-> this.data[1]],
                                 !.data = Tail(this.data)])

WriteBatchIterator_Error(this) == this.err

WriteBatchIterator_Record(this) == this.record

----------------------------------------------------------------------------
\* Inputs.

\* all sequences over S of length 0..n
Seqs(S, n) == UNION {[1..k -> S] : k \in 0..n}

LongValue == [i \in 1..LongLen |-> 7]

Keys   == {<<>>, <<97>>, <<98, 1>>}
Values == {<<>>, <<49>>, LongValue}

\* the bytes an arbitrary batch body is made of: the four type tags, which
\* are also short lengths, and a byte with the continuation bit set
RawBytes == {0, 1, 2, 3, 128}

\* a Deletion whose key length is 2^64 - 1, and one whose key length is 2^63
HugeLengthBodies ==
    {<<RecordTypeDeletion>> \o [i \in 1..9 |-> 255] \o <<1>>,
     <<RecordTypeDeletion>> \o [i \in 1..9 |-> 128] \o <<1>>}

RawBodies == Seqs(RawBytes, MaxBody) \cup HugeLengthBodies

RawHeader(c) == [i \in 1..8 |-> 0] \o PutFixed32(c)

\* inputs shorter than the header
ShortInputs == {[i \in 1..k |-> b] : k \in 0..(HeaderSize - 1), b \in {0, 1, 128}}

RawInputs ==
    {RawHeader(c) \o b : c \in 0..MaxHdrCount, b \in RawBodies} \cup ShortInputs

ContBytes  == {128, 255}
TermBytes  == {0, 1, 2, 127}
TrailBytes == {0, 128}

VarintBufs ==
    {c \o t \o r : c \in Seqs(ContBytes, MaxCont),
                   t \in {<<>>} \cup {<<b>> : b \in TermBytes},
                   r \in Seqs(TrailBytes, MaxTrail)}

\* 64-bit values: among them 0, 127, 128, 16383, 16384 and 2^64 - 1
EncValues ==
    {x \in [1..NLimbs -> {0, 1, 127}] :
        (\A i \in 4..(NLimbs - 1) : x[i] # 1) /\ x[NLimbs] # 127}

NoResult == [x |-> Zero64, n |-> -1]

----------------------------------------------------------------------------
\* The state machine.

InitReader ==
    /\ it = ZeroIterator
    /\ ret = "none"
    /\ prevRet = "none"
    /\ out = <<>>
    /\ cut = -1

InitNoVarint ==
    /\ vbuf = <<>>
    /\ vval = Zero64
    /\ vsrc = "none"
    /\ vout = NoResult

\* NewWriteBatch
Init ==
    /\ wbatch = rocksdb_writebatch_create
    /\ wpanic = FALSE
    /\ ops = <<>>
    /\ nops = 0
    /\ lastOp = [op |-> "NewWriteBatch", key |-> <<>>, size |-> 0]
    /\ phase = "build"
    /\ InitReader
    /\ InitNoVarint

\* a batch whose bytes are arbitrary
InitRaw ==
    /\ wbatch \in RawInputs
    /\ wpanic = FALSE
    /\ ops = <<>>
    /\ nops = 0
    /\ lastOp = [op |-> "raw", key |-> <<>>, size |-> 0]
    /\ phase = "build"
    /\ InitReader
    /\ InitNoVarint

\* a buffer for decodeVarint: arbitrary, or the encoding of a value followed
\* by arbitrary bytes
InitVarint ==
    /\ wbatch = rocksdb_writebatch_create
    /\ wpanic = FALSE
    /\ ops = <<>>
    /\ nops = 0
    /\ lastOp = [op |-> "none", key |-> <<>>, size |-> 0]
    /\ phase = "varint"
    /\ InitReader
    /\ vout = NoResult
    /\ \/ /\ vsrc = "raw"
          /\ vbuf \in VarintBufs
          /\ vval = Zero64
       \/ /\ vsrc = "enc"
          /\ vval \in EncValues
          /\ \E r \in Seqs(TrailBytes, MaxTrail) : vbuf = EncodeVarint64(vval) \o r

Put ==
    /\ phase = "build" /\ ~wpanic /\ nops < MaxOps
    /\ \E key \in Keys, value \in Values :
         LET r == WriteBatch_Put(wbatch, key, value)
         IN  /\ wbatch' = r.wbatch
             /\ wpanic' = r.panic
             /\ ops' = Append(ops, [Key |-> Slice(key), Value |-> Slice(value),
                                    Type |-> RecordTypeValue])
             /\ lastOp' = [op |-> "Put", key |-> key, size |-> Len(wbatch)]
    /\ nops' = nops + 1
    /\ UNCHANGED <<phase, readerVars, varintVars>>

Delete ==
    /\ phase = "build" /\ ~wpanic /\ nops < MaxOps
    /\ \E key \in Keys :
         LET r == WriteBatch_Delete(wbatch, key)
         IN  /\ wbatch' = r.wbatch
             /\ wpanic' = r.panic
             /\ ops' = IF r.panic THEN ops
                       ELSE Append(ops, [Key |-> Slice(key), Value |-> NilSlice,
                                         Type |-> RecordTypeDeletion])
             /\ lastOp' = [op |-> "Delete", key |-> key, size |-> Len(wbatch)]
    /\ nops' = nops + 1
    /\ UNCHANGED <<phase, readerVars, varintVars>>

Clear ==
    /\ phase = "build" /\ ~wpanic /\ nops < MaxOps
    /\ wbatch' = WriteBatch_Clear(wbatch)
    /\ ops' = <<>>
    /\ lastOp' = [op |-> "Clear", key |-> <<>>, size |-> Len(wbatch)]
    /\ nops' = nops + 1
    /\ UNCHANGED <<wpanic, phase, readerVars, varintVars>>

NewIterator ==
    /\ phase = "build" /\ ~wpanic
    /\ it' = NewIteratorOver(WriteBatch_Data(wbatch))
    /\ phase' = "iter"
    /\ UNCHANGED <<builderVars, ret, prevRet, out, cut, varintVars>>

\* an iterator over the first c bytes of Data()
NewIteratorTruncated ==
    /\ phase = "build" /\ ~wpanic
    /\ \E c \in 0..Len(WriteBatch_Data(wbatch)) :
         /\ it' = NewIteratorOver(SubSeq(WriteBatch_Data(wbatch), 1, c))
         /\ cut' = c
    /\ phase' = "iter"
    /\ UNCHANGED <<builderVars, ret, prevRet, out, varintVars>>

\* Next can be called: an iterator exists and no call has faulted (a call
\* that faulted ends the program)
NextCallable == phase = "iter" /\ ret # "panic"

\* one call of Next; the caller copies the record out when it returned true
Next ==
    /\ NextCallable
    /\ LET r == WriteBatchIterator_Next(it)
       IN  /\ it' = r.this
           /\ ret' = r.ret
           /\ out' = IF r.ret = "true"
                     THEN Append(out, WriteBatchIterator_Record(r.this))
                     ELSE out
    /\ prevRet' = ret
    /\ UNCHANGED <<builderVars, phase, cut, varintVars>>

DecodeVarint ==
    /\ phase = "varint" /\ vout = NoResult
    /\ vout' = decodeVarint(vbuf)
    /\ UNCHANGED <<builderVars, phase, readerVars, vbuf, vval, vsrc>>

\* builder calls in the behaviours that cut the serialized bytes
MaxTruncOps == 2

SpecNext == Put \/ Delete \/ Clear \/ NewIterator \/ Next
Spec == Init /\ [][SpecNext]_vars

RawNext == NewIterator \/ Next
SpecRaw == InitRaw /\ [][RawNext]_vars

TruncPut == nops < MaxTruncOps /\ Put
TruncDelete == nops < MaxTruncOps /\ Delete
TruncNext == TruncPut \/ TruncDelete \/ NewIteratorTruncated \/ Next
SpecTrunc == Init /\ [][TruncNext]_vars

VarintNext == DecodeVarint
SpecVarint == InitVarint /\ [][VarintNext]_vars

----------------------------------------------------------------------------
\* Properties.

EmptyBatch == [i \in 1..12 |-> 0]

\* bytes a record takes in the body
RecSize(r) ==
    1 + Len(PutLengthPrefixedSlice(r.Key.b))
      + (IF r.Value.nil THEN 0 ELSE Len(PutLengthPrefixedSlice(r.Value.b)))

RECURSIVE EndOf(_, _)
\* offset in the serialized bytes at which record i of rs ends
EndOf(rs, i) == IF i = 0 THEN 12 ELSE EndOf(rs, i - 1) + RecSize(rs[i])

\* number of records that lie wholly in the first c bytes
CompleteBefore(rs, c) == Cardinality({i \in 1..Len(rs) : EndOf(rs, i) <= c})

\* the cut falls strictly inside a record
CutInsideRecord ==
    /\ cut > 12
    /\ cut < Len(wbatch)
    /\ \A i \in 0..Len(ops) : EndOf(ops, i) # cut

\* no byte with the continuation bit clear among the first ten bytes
NoTerminator(buf) == \A i \in 1..Min(Len(buf), 10) : buf[i] >= 128

\* the first byte with the continuation bit clear is the tenth and carries
\* payload above bit 63
Overflows64(buf) ==
    /\ Len(buf) >= 10
    /\ \A i \in 1..9 : buf[i] >= 128
    /\ buf[10] < 128
    /\ buf[10] > 1

Max64 == [i \in 1..10 |-> IF i < 10 THEN 127 ELSE 1]

\* C1: a Reader over the serialized batch yields one record per put and
\* delete since the batch was last empty, in append order, with the type, key
\* and value of the operation (value unset for a delete), and then returns
\* false with no error latched.
C1_RoundTrip ==
    phase = "iter" =>
        /\ ret # "panic"
        /\ WriteBatchIterator_Error(it) = NoErr
        /\ Len(out) <= Len(ops)
        /\ out = SubSeq(ops, 1, Len(out))
        /\ (ret = "true" => WriteBatchIterator_Record(it) = ops[Len(out)])
        /\ (ret = "false" => out = ops)

\* put, delete, put with an empty value: all three read back, the delete
\* after a put with its value unset, then false
C1_Witness ==
    /\ phase = "iter" /\ ret = "false"
    /\ Len(ops) = 3
    /\ out = ops
    /\ out[1].Type = RecordTypeValue /\ out[1].Value.b # <<>>
    /\ out[2] = [Key |-> Slice(<<98, 1>>), Value |-> NilSlice,
                 Type |-> RecordTypeDeletion]
    /\ out[3] = [Key |-> Slice(<<97>>), Value |-> Slice(<<>>),
                 Type |-> RecordTypeValue]

\* C2: over a well-formed batch cut strictly inside a record, the Reader
\* yields the complete records before the cut, then returns false with the
\* short-buffer error latched, and never faults.
C2_Truncation ==
    (phase = "iter" /\ CutInsideRecord) =>
        /\ ret # "panic"
        /\ Len(out) <= CompleteBefore(ops, cut)
        /\ out = SubSeq(ops, 1, Len(out))
        /\ (ret = "false" =>
                /\ WriteBatchIterator_Error(it) = ErrShortBuffer
                /\ Len(out) = CompleteBefore(ops, cut))

\* C3: whatever the bytes, every Next call completes returning true or false.
C3_NeverFaults == ret \in {"none", "true", "false"}

\* C4: once the short-buffer error is latched, a later Next returns false and
\* changes neither the error, the remaining body nor the scratch record; and
\* the error is latched only by a call that returned false on a non-empty
\* body whose key-length or value-length varint has no terminating byte.
C4_StickyError ==
    [][ /\ (it.err # NoErr =>
                /\ it' = it
                /\ ret' = "false"
                /\ out' = out)
        /\ ((it.err = NoErr /\ it'.err # NoErr) =>
                /\ ret' = "false"
                /\ it'.err = ErrShortBuffer
                /\ Len(it.data) > 0
                /\ NoTerminator(it'.data)) ]_vars

\* a record was read, the next one latched the error with bytes left in the
\* body, and Next was called again
C4_Witness ==
    /\ phase = "iter"
    /\ WriteBatchIterator_Error(it) = ErrShortBuffer
    /\ prevRet = "false" /\ ret = "false"
    /\ Len(out) >= 1
    /\ Len(it.data) > 0

\* C5: over an input shorter than the 12-byte header the remaining body is
\* empty, every Next returns false and no error is latched; over a longer
\* input the remaining body is the input without its first 12 bytes, so a
\* 12-byte input yields no record and no error either.
C5_ShortHeader ==
    phase = "iter" =>
        /\ (Len(wbatch) <= 12 =>
                /\ it.data = <<>>
                /\ ret \in {"none", "false"}
                /\ WriteBatchIterator_Error(it) = NoErr
                /\ out = <<>>)
        /\ ((Len(wbatch) >= 12 /\ ret = "none") =>
                /\ Len(it.data) = Len(wbatch) - 12
                /\ \A i \in 1..Len(it.data) : it.data[i] = wbatch[12 + i])

\* a short input that is not all zero: Next was called twice
C5_Witness ==
    /\ phase = "iter"
    /\ Len(wbatch) = 11 /\ wbatch[1] # 0
    /\ prevRet = "false" /\ ret = "false"

\* a 12-byte input with a non-zero count: Next was called
C5_Witness12 ==
    /\ phase = "iter"
    /\ Len(wbatch) = 12 /\ Count(wbatch) > 0
    /\ ret = "false"

\* C6: decodeVarint returns (0, 0) when the buffer ends before a byte with
\* the continuation bit clear, when the first ten bytes all have it set, and
\* when the value needs more than 64 bits; otherwise it consumes 1..10 bytes.
C6_FailureSentinel ==
    (vsrc = "raw" /\ vout # NoResult) =>
        IF NoTerminator(vbuf) \/ Overflows64(vbuf)
        THEN vout.n = 0 /\ vout.x = Zero64
        ELSE vout.n \in 1..10

\* C7: decoding the minimal encoding of v, whatever follows it, returns v
\* and the length of the encoding.
C7_VarintValue ==
    (vsrc = "enc" /\ vout # NoResult) =>
        /\ vout.x = vval
        /\ vout.n = Len(EncodeVarint64(vval))
        /\ SubSeq(vbuf, 1, vout.n) = EncodeVarint64(vval)

\* 2^64 - 1 followed by a byte was decoded
C7_Witness ==
    /\ vsrc = "enc" /\ vout # NoResult
    /\ vval = Max64
    /\ vout.n = 10
    /\ Len(vbuf) = 11

\* C8: Delete with an empty key completes without fault and appends one
\* Deletion record with key length 0.
C8_DeleteEmptyKey ==
    (lastOp.op = "Delete" /\ lastOp.key = <<>>) =>
        /\ ~wpanic
        /\ Len(wbatch) = lastOp.size + 2
        /\ SubSeq(wbatch, Len(wbatch) - 1, Len(wbatch)) = <<0, 0>>

\* C9: right after Clear the serialized batch is the 12-byte empty header,
\* the bytes of a fresh batch; and the batch always declares and holds the
\* records appended since it was last empty, and nothing else.
C9_ClearResets ==
    (phase = "build" /\ ~wpanic) =>
        /\ (lastOp.op = "Clear" =>
                /\ WriteBatch_Data(wbatch) = EmptyBatch
                /\ WriteBatch_Data(wbatch) = rocksdb_writebatch_create)
        /\ Len(WriteBatch_Data(wbatch)) = EndOf(ops, Len(ops))
        /\ Count(WriteBatch_Data(wbatch)) = Len(ops)

\* a batch that held records was cleared
C9_Witness ==
    /\ phase = "build"
    /\ lastOp.op = "Clear"
    /\ lastOp.size > 12
    /\ WriteBatch_Data(wbatch) = EmptyBatch

\* a cleared batch was used again
C9_WitnessReuse ==
    /\ phase = "build"
    /\ lastOp.op = "Put"
    /\ lastOp.size = 12
    /\ nops = 3
    /\ Len(ops) = 1

\* C10: the remaining body never grows, at most len(body) records are
\* yielded, and the iteration ends: Next has returned false, with the body
\* empty or the error latched, or it can be called again (Next is enabled).
C10_Terminates ==
    phase = "iter" =>
        /\ Len(it.data) <= Len(wbatch)
        /\ Len(out) + Len(it.data) <= Len(wbatch)
        /\ (ret = "false" =>
                (Len(it.data) = 0 /\ it.err = NoErr) \/ it.err = ErrShortBuffer)
        /\ (ret = "false" \/ NextCallable)

====
